---------------------------- MODULE Spec2Model ----------------------------
(***************************************************************************)
(* A model of align.py (Prosodylab-Aligner): the command line, the         *)
(* construction of Aligner / TrainAligner (corpus validation, dictionary   *)
(* resolution, audio normalisation, feature extraction, bootstrap), the    *)
(* training loop with its generation directories, small_pause, align,      *)
(* align_and_score and the destructor-based removal of the workspace.      *)
(*                                                                         *)
(* Paths are tuples <<directory, stem, extension>>.  Directory names of    *)
(* model generations are sequences of digit characters, as str(n).zfill(3) *)
(* builds them.  External tools (HDMan, HLEd, sox, HCopy, HCompV, HERest,  *)
(* HHEd, HVite) are the environment: each invocation draws its status, and *)
(* the files the program reads are drawn where the program reads them.     *)
(***************************************************************************)
EXTENDS Integers, Sequences, FiniteSets, TLC

(***************************************************************************)
(* Bounds of the model.                                                    *)
(***************************************************************************)
MaxNArg == 2        \* largest in-range value of -n that is drawn
MaxWords == 1       \* words on the line of a transcript
MaxDictLines == 1   \* lines of the dictionary file
MaxNiter == 3       \* largest argument of a stand-alone train(niter) call
MaxDelta == 3       \* how far from a supported rate a stand-alone -s is drawn

(***************************************************************************)
(* Program constants.                                                      *)
(***************************************************************************)
NLimit == 25          \* -n must satisfy 0 < n < 25
DefaultN == 4         \* n_per_round = 4
DefaultSR == 25000    \* sr = 25000
ZWidth == 3           \* str(self.n).zfill(3)

SRs == <<4000, 8000, 10000, 12500, 15625, 16000, 20000, 25000, 31250, 40000,
         50000, 62500, 78125, 80000, 100000, 125000, 156250, 200000>>

(***************************************************************************)
(* The finite universe of file names and words the inputs are drawn from.  *)
(***************************************************************************)
Stems == {"a", "b"}       \* stems of the directory to be aligned
TrStems == {"a"}          \* stems of a separate training directory
Words == {"w1", "w2"}
Absent == "absent"
None == "none"

StemsOf(dir) == IF dir = "tr" THEN TrStems ELSE Stems
FilesOf(dir) == {<<dir, s, e>> : s \in StemsOf(dir), e \in {"wav", "lab"}}

\* every sequence without repetition over the finite set S
RECURSIVE Perms(_)
Perms(S) ==
  IF S = {} THEN {<<>>}
  ELSE UNION {{<<x>> \o p : p \in Perms(S \ {x})} : x \in S}

Range(s) == {s[k] : k \in 1..Len(s)}
SeqsUpTo(S, n) == UNION {[1..k -> S] : k \in 0..n}

(***************************************************************************)
(* os.path helpers as align.py uses them.                                  *)
(***************************************************************************)
\* os.path.splitext(p)[0] + '.' + ext
WithExt(p, ext) == <<p[1], p[2], ext>>
\* os.path.join(dir, os.path.split(p)[1])
InDir(dir, p) == <<dir, p[2], p[3]>>


(***************************************************************************)
(* Aligner._lists (lines 200-226).  wavs and labs are the two glob         *)
(* results, exists the files of the directory.  status is "nowav" for      *)
(* error('Directory {0} has no .wav files'), "unpaired" for error('Missing *)
(* .wav or .lab files'), else "ok" with the two lists returned.            *)
(***************************************************************************)
RECURSIVE MissingOf(_, _, _)
MissingOf(list, ext, exists) ==
  IF list = <<>> THEN <<>>
  ELSE LET want == WithExt(Head(list), ext)
       IN (IF want \in exists THEN <<>> ELSE <<want>>)
            \o MissingOf(Tail(list), ext, exists)

\* mutant: the loop over wav_list (lines 217-220) is left out
ListsLabLoopOnly(wavs, labs, exists) ==
  IF Len(wavs) < 1
  THEN [status |-> "nowav", wav_list |-> <<>>, lab_list |-> <<>>,
        unpaired_list |-> <<>>]
  ELSE LET unpaired_list == MissingOf(labs, "wav", exists)
       IN IF unpaired_list # <<>>
          THEN [status |-> "unpaired", wav_list |-> <<>>, lab_list |-> <<>>,
                unpaired_list |-> unpaired_list]
          ELSE [status |-> "ok", wav_list |-> wavs, lab_list |-> labs,
                unpaired_list |-> <<>>]

\* mutant: the test of line 209 reads len(wav_list) < 2
ListsTwoWavs(wavs, labs, exists) ==
  IF Len(wavs) < 2
  THEN [status |-> "nowav", wav_list |-> <<>>, lab_list |-> <<>>,
        unpaired_list |-> <<>>]
  ELSE LET unpaired_list == MissingOf(labs, "wav", exists)
                              \o MissingOf(wavs, "lab", exists)
       IN IF unpaired_list # <<>>
          THEN [status |-> "unpaired", wav_list |-> <<>>, lab_list |-> <<>>,
                unpaired_list |-> unpaired_list]
          ELSE [status |-> "ok", wav_list |-> wavs, lab_list |-> labs,
                unpaired_list |-> <<>>]

_lists(wavs, labs, exists) ==
  IF Len(wavs) < 1
  THEN [status |-> "nowav", wav_list |-> <<>>, lab_list |-> <<>>,
        unpaired_list |-> <<>>]
  ELSE LET unpaired_list == MissingOf(labs, "wav", exists)
                              \o MissingOf(wavs, "lab", exists)
       IN IF unpaired_list # <<>>
          THEN [status |-> "unpaired", wav_list |-> <<>>, lab_list |-> <<>>,
                unpaired_list |-> unpaired_list]
          ELSE [status |-> "ok", wav_list |-> wavs, lab_list |-> labs,
                unpaired_list |-> <<>>]

(***************************************************************************)
(* Aligner._the_dict (lines 178-186): a line is <<word, phone, ...>>; a    *)
(* later line for the same word overwrites the earlier one.                *)
(***************************************************************************)
DictLineSet == {<<"w1", "p1">>, <<"w1", "p2">>, <<"w2", "p2", "p3">>}
DictFiles == SeqsUpTo(DictLineSet, MaxDictLines)
EmptyFn == [x \in {} |-> x]

RECURSIVE _the_dict(_)
_the_dict(lines) ==
  IF lines = <<>> THEN EmptyFn
  ELSE LET last == lines[Len(lines)]
       IN (last[1] :> Tail(last)) @@ _the_dict(SubSeq(lines, 1, Len(lines) - 1))

(***************************************************************************)
(* Aligner._check_dct, lines 235-272: the pass over the label files and    *)
(* the out-of-dictionary test.  text[lab] is the split first line of lab.  *)
(***************************************************************************)
sil == "sil"
Transcripts == SeqsUpTo(Words, MaxWords)

\* ood[word].append(lab) on a defaultdict(list)
AppendOod(ood, word, lab) ==
  IF word \in DOMAIN ood THEN [ood EXCEPT ![word] = Append(@, lab)]
  ELSE (word :> <<lab>>) @@ ood

\* lines 249-257: the loop over the words of one label file
RECURSIVE LabWords(_, _, _, _)
LabWords(ws, lab, d, acc) ==
  IF ws = <<>> THEN acc
  ELSE LET word == Head(ws)
       IN LabWords(Tail(ws), lab, d,
            IF word \in DOMAIN d
            THEN [acc EXCEPT !.found = @ \cup {word},
                             !.phons = @ \o d[word],
                             !.kept = Append(@, word)]
            ELSE [acc EXCEPT !.ood = AppendOod(@, word, lab)])

\* lines 239-261: the loop over lab_list; files opened 'w' are overwritten
RECURSIVE LabLoop(_, _, _, _)
LabLoop(labs, text, d, acc) ==
  IF labs = <<>> THEN acc
  ELSE LET lab == Head(labs)
           phon_lab == InDir("DAT", lab)
           word_lab == InDir("LAB", lab)
           r == LabWords(text[lab], lab, d,
                  [found |-> acc.found, ood |-> acc.ood,
                   phons |-> <<>>, kept |-> <<>>])
       IN LabLoop(Tail(labs), text, d,
            [found |-> r.found,
             ood |-> r.ood,
             word_mlf |-> acc.word_mlf \o <<word_lab>> \o r.kept \o <<".">>,
             phon_labs |-> (phon_lab :> (<<sil>> \o r.phons \o <<sil>>))
                             @@ acc.phon_labs,
             word_labs |-> (word_lab :> r.kept) @@ acc.word_labs])

\* mutant: the test of line 263 is dropped: resolution never fails
CheckDctNoTest(lab_list, text, d, ood_mode) ==
  LET r == LabLoop(lab_list, text, d,
             [found |-> {}, ood |-> EmptyFn, word_mlf |-> <<"#!MLF!#">>,
              phon_labs |-> EmptyFn, word_labs |-> EmptyFn])
  IN [status |-> "ok", ood |-> r.ood, found_words |-> r.found,
      word_mlf |-> r.word_mlf, phon_labs |-> r.phon_labs,
      word_labs |-> r.word_labs, outofdict |-> {}]

\* mutant: with -m the out-of-dictionary words are listed and the run goes on
CheckDctDetailPasses(lab_list, text, d, ood_mode) ==
  LET r == LabLoop(lab_list, text, d,
             [found |-> {}, ood |-> EmptyFn, word_mlf |-> <<"#!MLF!#">>,
              phon_labs |-> EmptyFn, word_labs |-> EmptyFn])
  IN [status |-> IF DOMAIN r.ood # {} /\ ~ood_mode THEN "ood" ELSE "ok",
      ood |-> r.ood, found_words |-> r.found,
      word_mlf |-> r.word_mlf, phon_labs |-> r.phon_labs,
      word_labs |-> r.word_labs,
      outofdict |-> IF DOMAIN r.ood = {} THEN {}
                    ELSE IF ood_mode
                         THEN {<<w, r.ood[w]>> : w \in DOMAIN r.ood}
                         ELSE {<<w>> : w \in DOMAIN r.ood}]

_check_dct(lab_list, text, d, ood_mode) ==
  LET r == LabLoop(lab_list, text, d,
             [found |-> {}, ood |-> EmptyFn, word_mlf |-> <<"#!MLF!#">>,
              phon_labs |-> EmptyFn, word_labs |-> EmptyFn])
  IN [status |-> IF DOMAIN r.ood # {} THEN "ood" ELSE "ok",
      ood |-> r.ood, found_words |-> r.found,
      word_mlf |-> r.word_mlf, phon_labs |-> r.phon_labs,
      word_labs |-> r.word_labs,
      outofdict |-> IF DOMAIN r.ood = {} THEN {}
                    ELSE IF ood_mode
                         THEN {<<w, r.ood[w]>> : w \in DOMAIN r.ood}
                         ELSE {<<w>> : w \in DOMAIN r.ood}]

(***************************************************************************)
(* str(n).zfill(3) (lines 406, 412, 496) on digit characters.              *)
(***************************************************************************)
Digit(k) == <<"0", "1", "2", "3", "4", "5", "6", "7", "8", "9">>[k + 1]

RECURSIVE Str(_)
Str(k) == IF k < 10 THEN <<Digit(k)>> ELSE Append(Str(k \div 10), Digit(k % 10))

RECURSIVE Zfill(_, _)
Zfill(s, width) == IF Len(s) >= width THEN s ELSE Zfill(<<"0">> \o s, width)

\* mutant: the name of a generation spells the counter plus 1
GenDirFromOne(k) == Zfill(Str(k + 1), ZWidth)

GenDir(k) == Zfill(Str(k), ZWidth)
MOD == <<"M", "O", "D">>     \* the shipped models, Aligner(ts_dir, 'MOD', ...)


(***************************************************************************)
(* Line 604-611: the sample rate given with -s, moved to a supported rate. *)
(* bisect(SRs, sr) is the number of supported rates <= sr.                 *)
(***************************************************************************)
Bisect(xs, x) == Cardinality({k \in 1..Len(xs) : xs[k] <= x})

\* mutant: a request below every supported rate is kept as it is
ResolveSRLowKept(req) ==
  IF req \in Range(SRs) THEN req
  ELSE LET k == Bisect(SRs, req)
       IN IF k = 0 THEN req
          ELSE IF k = Len(SRs) THEN SRs[Len(SRs)]
          ELSE SRs[k + 1]

ResolveSR(req) ==
  IF req \in Range(SRs) THEN req
  ELSE LET k == Bisect(SRs, req)
       IN IF k = 0 THEN SRs[1]
          ELSE IF k = Len(SRs) THEN SRs[Len(SRs)]
          ELSE IF SRs[k + 1] - req > req - SRs[k] THEN SRs[k + 1]
          ELSE SRs[k + 1]

(***************************************************************************)
(* Aligner._check_aud (lines 290-321).  hdr[wav] is the header wave.open   *)
(* reads: [rate, channels].  Returns the lines appended to copy.scp, the   *)
(* lines written to the test or train list, and the sox invocations.  With *)
(* sox the feature file is DAT/<stem>.mfc; without it head is the whole    *)
(* path without extension, and os.path.join(aud_dir, head + '.mfc') of an  *)
(* absolute head is that path itself.                                      *)
(***************************************************************************)
\* mutant: the number of channels is not looked at
NeedsSoxRateOnly(h, rate) == h.rate # rate

\* line 301 / 314
NeedsSox(h, rate) == (h.rate # rate) \/ (h.channels # 1)

RECURSIVE AudLoop(_, _, _, _, _)
AudLoop(wavs, hdr, rate, sox, acc) ==
  IF wavs = <<>> \/ acc.status # "ok" THEN acc
  ELSE LET wav == Head(wavs)
           mfc == IF sox THEN <<"DAT", wav[2], "mfc">> ELSE WithExt(wav, "mfc")
           new_wav == <<"DAT", wav[2], "wav">>
           need == NeedsSox(hdr[wav], rate)
       IN AudLoop(Tail(wavs), hdr, rate, sox,
            IF need /\ ~sox THEN [acc EXCEPT !.status = "nosox"]
            ELSE [status |-> "ok",
                  copy |-> Append(acc.copy, <<IF need THEN new_wav ELSE wav, mfc>>),
                  check |-> Append(acc.check, mfc),
                  sox |-> IF need THEN Append(acc.sox, wav) ELSE acc.sox])

_check_aud(wavs, hdr, rate, sox) ==
  AudLoop(wavs, hdr, rate, sox,
          [status |-> "ok", copy |-> <<>>, check |-> <<>>, sox |-> <<>>])

(***************************************************************************)
(* Aligner.align_and_score, lines 367-380.  out[k] is what the engine      *)
(* prints for the k-th utterance of test.scp: a score line with the        *)
(* average log likelihood ll, or (score = FALSE) no score line.            *)
(* HVite_score (line 73) matches a score line only when the number starts  *)
(* with '-'.                                                               *)
(***************************************************************************)
LLs == {-1, 1}
EngineLines == {[score |-> FALSE, ll |-> 0]} \cup {[score |-> TRUE, ll |-> x] : x \in LLs}
Matches(line) == line.score /\ line.ll < 0

RECURSIVE ScoreLoop(_, _, _, _)
ScoreLoop(out, k, wavs, acc) ==
  IF k > Len(out) THEN acc
  ELSE ScoreLoop(out, k + 1, wavs,
         IF Matches(out[k])
         THEN [i |-> acc.i + 1,
               rows |-> Append(acc.rows, <<wavs[acc.i + 1], out[k].ll>>)]
         ELSE acc)

ScoreRows(out, wavs) == ScoreLoop(out, 1, wavs, [i |-> 0, rows |-> <<>>]).rows

(***************************************************************************)
(* The state.                                                              *)
(***************************************************************************)
VARIABLES
  pc,               \* position in the main program
  err,              \* what ended the run: None, or the error raised
  exitCode,         \* Running, then the exit status of the process
  sr, tr_dir, ood_mode, n_per_round, require_training,   \* lines 572-579
  has_sox, workspace, bound, the_dict, wav_list,         \* the Aligner
  n, cur_dir, nxt_dir, train_scp,
  ts_lab_list, tr_wav_list, tr_lab_list,                 \* locals of _check
  scp,              \* copy.scp, test.scp, train.scp of the workspace
  hmmDirs,          \* directories made under HMM/, in the order of os.mkdir
  models,           \* directories that hold macros and hmmdefs
  align_mlf,        \* whether the final HVite wrote .ALIGN.mlf
  phon_mlf,         \* the label names phones.mlf holds an entry for
  dirFiles,         \* the files of each directory that has been globbed
  unpairedTxt,      \* the lines of unpaired.txt (<<>>: not written)
  outofdictTxt,     \* the lines of outofdict.txt ({}: not written)
  toolFailed,       \* some external invocation returned non-zero
  log,              \* calls made and returned, in order
  scores, trace,    \* .SCORES.txt; the score lines HVite printed
  niter, i, ret,    \* the frame of train(niter)
  dctIn, dctOut,    \* arguments of _check_dct; result of a stand-alone call
  srReq,            \* the value of -s of a stand-alone resolution
  argv,             \* the options -n, -s and -t of the command line
  audIn             \* arguments of the last _check_aud and the headers it read

optVars == <<sr, tr_dir, ood_mode, n_per_round, require_training, argv>>
objVars == <<has_sox, the_dict, wav_list, train_scp>>
genVars == <<n, cur_dir, nxt_dir, hmmDirs, models>>
locVars == <<ts_lab_list, tr_wav_list, tr_lab_list>>
outVars == <<unpairedTxt, outofdictTxt, scores, trace, align_mlf, phon_mlf>>
frameVars == <<niter, i, ret>>
dctVars == <<dctIn, dctOut>>
callVars == <<srReq, audIn>>

vars == <<pc, err, exitCode, sr, tr_dir, ood_mode, n_per_round,
          require_training, has_sox, workspace, bound, the_dict, wav_list,
          n, cur_dir, nxt_dir, train_scp, ts_lab_list, tr_wav_list,
          tr_lab_list, scp, hmmDirs, models, align_mlf, phon_mlf, dirFiles,
          unpairedTxt, outofdictTxt, toolFailed, log, scores, trace,
          niter, i, ret, dctIn, dctOut, srReq, audIn, argv>>

Ev(op, rd, wr) == [op |-> op, rd |-> rd, wr |-> wr]
Call(op) == Ev(op, <<>>, <<>>)
Ops(l) == [k \in 1..Len(l) |-> l[k].op]

Running == 0 - 1
NoDctIn == [lines |-> <<>>, labs |-> <<>>, text |-> EmptyFn, ood_mode |-> FALSE]
NoAudIn == [wavs |-> <<>>, hdr |-> EmptyFn, training |-> FALSE]
NoArg == [given |-> FALSE, int |-> FALSE, val |-> 0]
NoArgv == [n |-> NoArg, s |-> NoArg, t |-> Absent]

\* the state before argv is read (but for pc, dctIn and srReq)
Blank ==
  /\ err = None /\ exitCode = Running
  /\ sr = DefaultSR /\ tr_dir = None /\ ood_mode = FALSE
  /\ n_per_round = DefaultN /\ require_training = FALSE /\ argv = NoArgv
  /\ has_sox = FALSE /\ workspace = None /\ bound = FALSE
  /\ the_dict = EmptyFn /\ wav_list = <<>>
  /\ n = 0 /\ cur_dir = <<>> /\ nxt_dir = <<>> /\ train_scp = "train"
  /\ ts_lab_list = <<>> /\ tr_wav_list = <<>> /\ tr_lab_list = <<>>
  /\ scp = [copy |-> <<>>, test |-> <<>>, train |-> <<>>]
  /\ hmmDirs = <<>> /\ models = {} /\ align_mlf = FALSE /\ phon_mlf = {}
  /\ dirFiles = EmptyFn
  /\ unpairedTxt = <<>> /\ outofdictTxt = {}
  /\ toolFailed = FALSE /\ log = <<>>
  /\ scores = <<>> /\ trace = <<>>
  /\ niter = 0 /\ i = 0 /\ ret = None
  /\ dctOut = _check_dct(<<>>, EmptyFn, EmptyFn, FALSE)
  /\ audIn = NoAudIn

Init == pc = "parse" /\ dctIn = NoDctIn /\ srReq = 0 /\ Blank


\* mutant: the branch of line 633 is taken whatever tr_dir is
TrainingAlways == tr_dir = tr_dir

\* line 633: if tr_dir
Training == tr_dir # None

\* error(msg) (lines 82-109) and an uncaught exception: the run ends, status 1
Fail(e) == err' = e /\ exitCode' = 1 /\ pc' = "exit"

(***************************************************************************)
(* __main__, lines 567-633 and 651-653: the options.  An option record     *)
(* says which options argv holds; nArg and sArg say whether -n / -s is     *)
(* given, whether int(val) succeeds, and the value.                        *)
(***************************************************************************)
NVals == (0..MaxNArg) \cup {NLimit}
SVals == {0, 9000}
ArgsOf(vals) ==
  {NoArg, [given |-> TRUE, int |-> FALSE, val |-> 0]}
    \cup {[given |-> TRUE, int |-> TRUE, val |-> v] : v \in vals}

\* mutant: the test of line 592 admits 0
NArgOkWithZero(a) == a.int /\ (0 <= a.val /\ a.val < NLimit)

NArgOk(a) == a.int /\ (0 < a.val /\ a.val < NLimit)
SArgOk(a) == a.int /\ a.val > 0

\* mutant: -s does not mark the run as one that needs -t (line 599 dropped)
RequireTrainingOnlyN(nArg, sArg) == nArg.given

\* lines 591 and 599: require_training, read at line 652
RequireTraining(nArg, sArg) == nArg.given \/ sArg.given

\* the errors the loop of lines 581-625 can end with, for the options o
OptionErrors(o) ==
  {e \in {"-d", "-n", "-s", "-t", "-h", "NotImplementedError"} :
     \/ e = "-d" /\ o.d = "unreadable"
     \/ e = "-n" /\ o.nArg.given /\ ~NArgOk(o.nArg)
     \/ e = "-s" /\ o.sArg.given /\ ~SArgOk(o.sArg)
     \/ e = "-t" /\ o.t = "unreadable"
     \/ e = "-h" /\ o.h
     \/ e = "NotImplementedError" /\ (o.a \/ o.u)}

ParseArgs ==
  /\ pc = "parse"
  /\ \E d \in {Absent, "readable", "unreadable"}, m \in BOOLEAN,
        nArg \in ArgsOf(NVals), sArg \in ArgsOf(SVals),
        t \in {Absent, "same", "other", "unreadable"},
        h \in BOOLEAN, a \in BOOLEAN, u \in BOOLEAN, args \in BOOLEAN :
       LET o == [d |-> d, nArg |-> nArg, sArg |-> sArg, t |-> t,
                 h |-> h, a |-> a, u |-> u]
           needsT == RequireTraining(nArg, sArg)
           unset == <<sr, tr_dir, ood_mode, n_per_round, require_training>>
       IN /\ argv' = [n |-> nArg, s |-> sArg, t |-> t]
          /\ IF OptionErrors(o) # {}
             THEN /\ \E e \in OptionErrors(o) : Fail(e)
                  /\ UNCHANGED unset
             ELSE IF ~args
             THEN Fail("no test directory") /\ UNCHANGED unset
             ELSE IF t = Absent /\ needsT
             THEN Fail("-n, -s only with -t") /\ UNCHANGED unset
             ELSE /\ sr' = IF sArg.given THEN ResolveSR(sArg.val) ELSE DefaultSR
                  /\ n_per_round' = IF nArg.given THEN nArg.val ELSE DefaultN
                  /\ tr_dir' = IF t = Absent THEN None ELSE t
                  /\ ood_mode' = m
                  /\ require_training' = needsT
                  /\ pc' = "construct"
                  /\ UNCHANGED <<err, exitCode>>
  /\ UNCHANGED <<objVars, has_sox, workspace, bound, genVars, locVars, scp,
                 dirFiles, outVars, toolFailed, log, frameVars, dctVars,
                 callVars>>

(***************************************************************************)
(* Aligner.__init__, lines 120-153: mkdtemp and the three subdirectories,  *)
(* the dictionary read by _the_dict.                                       *)
(***************************************************************************)
Construct ==
  /\ pc = "construct"
  /\ has_sox' \in BOOLEAN
  /\ workspace' = "exists"
  /\ \E lines \in DictFiles : the_dict' = _the_dict(lines)
  /\ pc' = "lists_ts"
  /\ UNCHANGED <<err, exitCode, optVars, bound, wav_list, train_scp, genVars,
                 locVars, scp, dirFiles, outVars, toolFailed, log, frameVars,
                 dctVars,
                 callVars>>

(***************************************************************************)
(* _check, lines 194 / 470 / 478-479: one call of _lists.  The directory   *)
(* holds any files; glob returns each list in an arbitrary order.          *)
(***************************************************************************)
Lists ==
  /\ pc \in {"lists_ts", "lists_tr"}
  /\ LET dir == IF pc = "lists_ts" THEN "ts" ELSE "tr"
     IN \E files \in SUBSET FilesOf(dir) :
        \E wavs \in Perms({f \in files : f[3] = "wav"}),
           labs \in Perms({f \in files : f[3] = "lab"}) :
          LET r == _lists(wavs, labs, files)
          IN /\ dirFiles' = (dir :> files) @@ dirFiles
             /\ log' = Append(log, Call("_lists"))
             /\ IF r.status = "ok"
                THEN /\ IF dir = "ts"
                        THEN /\ wav_list' = r.wav_list
                             /\ ts_lab_list' = r.lab_list
                             /\ UNCHANGED <<tr_wav_list, tr_lab_list>>
                        ELSE /\ tr_wav_list' = r.wav_list
                             /\ tr_lab_list' = r.lab_list
                             /\ UNCHANGED <<wav_list, ts_lab_list>>
                     /\ pc' = IF dir = "ts" /\ tr_dir = "other"
                              THEN "lists_tr" ELSE "check_dct"
                     /\ UNCHANGED <<err, exitCode, unpairedTxt>>
                ELSE /\ Fail(r.status)
                     /\ unpairedTxt' = r.unpaired_list
                     /\ UNCHANGED <<wav_list, locVars>>
  /\ UNCHANGED <<optVars, has_sox, the_dict, train_scp, workspace, bound,
                 genVars, scp, outofdictTxt, scores, trace, align_mlf,
                 phon_mlf, toolFailed, frameVars, dctVars,
                 callVars>>

(***************************************************************************)
(* _check, lines 196 / 472 / 481: _check_dct, lines 228-288.  The first    *)
(* line of every label file is read; after the test of line 263 HDMan and  *)
(* HLEd are called and their status is not looked at.  dctIn holds the     *)
(* arguments of the call and what it read until _check goes on.  HLEd      *)
(* (line 287, -l lab_dir -i phon_mlf) writes into phones.mlf one entry for *)
(* each entry of words.mlf, named after the label file in lab_dir; it     *)
(* reads the dictionary HDMan makes (-d self.taskdict) and fails without.  *)
(***************************************************************************)
CheckDct ==
  /\ pc = "check_dct"
  /\ LET labs == IF tr_dir = "other" THEN ts_lab_list \o tr_lab_list
                 ELSE ts_lab_list
     IN \E text \in [Range(labs) -> Transcripts] :
          LET r == _check_dct(labs, text, the_dict, ood_mode)
          IN /\ dctIn' = [lines |-> <<>>, labs |-> labs, text |-> text,
                          ood_mode |-> ood_mode]
             /\ IF r.status = "ok"
                THEN /\ \E hdman \in BOOLEAN, hled \in BOOLEAN :
                          /\ hled => hdman
                          /\ toolFailed' = (toolFailed \/ ~hdman \/ ~hled)
                          /\ phon_mlf' = IF hled THEN DOMAIN r.word_labs
                                         ELSE {}
                     /\ log' = log \o <<Call("HDMan"), Call("HLEd"),
                                        Call("_check_dct")>>
                     /\ pc' = "check_aud_ts"
                     /\ UNCHANGED <<err, exitCode, outofdictTxt>>
                ELSE /\ Fail("ood")
                     /\ outofdictTxt' = r.outofdict
                     /\ UNCHANGED <<toolFailed, log, phon_mlf>>
  /\ UNCHANGED <<optVars, objVars, has_sox, workspace, bound, genVars,
                 locVars, scp, dirFiles, unpairedTxt, scores, trace,
                 align_mlf, frameVars, dctOut, callVars>>

(***************************************************************************)
(* _check, lines 198 / 474-476 / 483-485: one call of _check_aud.  The     *)
(* header of every file is read; sox is called for the files that need it. *)
(* After the last call _check returns and its locals are gone.             *)
(***************************************************************************)
Headers == [rate : {DefaultSR, 10000}, channels : {1, 2}]

CheckAud ==
  /\ pc \in {"check_aud_ts", "check_aud_tr"}
  /\ LET training == (pc = "check_aud_tr")
         wavs == IF training THEN tr_wav_list ELSE wav_list
     IN \E hdr \in [Range(wavs) -> Headers] :
          LET r == _check_aud(wavs, hdr, sr, has_sox)
              more == ~training /\ tr_dir = "other"
          IN /\ audIn' = [wavs |-> wavs, hdr |-> hdr, training |-> training]
             /\ IF r.status = "ok"
                THEN /\ scp' = [copy |-> scp.copy \o r.copy,
                                test |-> IF training THEN scp.test ELSE r.check,
                                train |-> IF training THEN r.check ELSE scp.train]
                     /\ \E soxOk \in [1..Len(r.sox) -> BOOLEAN] :
                          toolFailed' =
                            (toolFailed \/ \E k \in 1..Len(r.sox) : ~soxOk[k])
                     /\ log' = log \o [k \in 1..Len(r.sox) |->
                                         Ev("sox", r.sox[k], InDir("DAT", r.sox[k]))]
                                   \o <<Call("_check_aud")>>
                     /\ train_scp' = IF tr_dir = "same" THEN "test" ELSE train_scp
                     /\ IF more
                        THEN pc' = "check_aud_tr" /\ UNCHANGED locVars
                        ELSE /\ pc' = "HCopy"
                             /\ ts_lab_list' = <<>> /\ tr_wav_list' = <<>>
                             /\ tr_lab_list' = <<>>
                     /\ UNCHANGED <<err, exitCode>>
                ELSE /\ Fail("nosox")
                     /\ scp' = [copy |-> scp.copy \o r.copy,
                                test |-> IF training THEN scp.test ELSE r.check,
                                train |-> IF training THEN r.check ELSE scp.train]
                     /\ UNCHANGED <<toolFailed, log, train_scp, locVars>>
  /\ dctIn' = NoDctIn
  /\ UNCHANGED <<optVars, has_sox, the_dict, wav_list, workspace, bound,
                 genVars, dirFiles, outVars, frameVars, dctOut, srReq>>

(***************************************************************************)
(* _HCopy, lines 323-349.                                                  *)
(***************************************************************************)
_HCopy ==
  /\ pc = "HCopy"
  /\ \E ok \in BOOLEAN : toolFailed' = (toolFailed \/ ~ok)
  /\ log' = log \o <<Call("HCopy"), Call("_HCopy")>>
  /\ pc' = IF Training THEN "bootstrap" ELSE "shipped"
  /\ audIn' = NoAudIn
  /\ UNCHANGED <<err, exitCode, optVars, objVars, has_sox, workspace, bound,
                 genVars, locVars, scp, dirFiles, outVars, frameVars, dctVars,
                 srReq>>

(***************************************************************************)
(* Aligner._subclass_specific_init, line 165, and the return of the        *)
(* constructor to line 655: the shipped models are the current ones.       *)
(***************************************************************************)
UseShipped ==
  /\ pc = "shipped"
  /\ cur_dir' = MOD
  /\ models' = {MOD}
  /\ bound' = TRUE
  /\ pc' = "align_and_score"
  /\ UNCHANGED <<err, exitCode, optVars, objVars, has_sox, workspace, n,
                 nxt_dir, hmmDirs, locVars, scp, dirFiles, outVars,
                 toolFailed, log, frameVars, dctVars,
                 callVars>>


(***************************************************************************)
(* TrainAligner._nxt_dir, lines 487-498: the new counter and directories.  *)
(* os.mkdir of a directory that exists raises OSError.                     *)
(***************************************************************************)
\* mutant: the counter is not incremented (line 494 dropped)
NxtDirNoIncrement(k, nxt) == [n |-> k, cur_dir |-> nxt, nxt_dir |-> GenDir(k)]

_nxt_dir(k, nxt) == [n |-> k + 1, cur_dir |-> nxt, nxt_dir |-> GenDir(k + 1)]

(***************************************************************************)
(* TrainAligner._subclass_specific_init, lines 404-462, and the return of  *)
(* the constructor to line 635.  self.n =+ 1 assigns +1.  HCompV writes    *)
(* proto and vFloors into cur_dir; when it fails, open(cur_dir/proto) of   *)
(* line 441 raises IOError.                                                *)
(***************************************************************************)
Bootstrap ==
  /\ pc = "bootstrap"
  /\ n' = 1
  /\ cur_dir' = GenDir(0)
  /\ nxt_dir' = GenDir(n')
  /\ hmmDirs' = <<cur_dir', nxt_dir'>>
  /\ \E ok \in BOOLEAN :
       /\ toolFailed' = (toolFailed \/ ~ok)
       /\ IF ok
          THEN /\ models' = {cur_dir'}
               /\ log' = log \o <<Ev("HCompV", <<>>, cur_dir'),
                                  Call("_subclass_specific_init")>>
               /\ bound' = TRUE
               /\ pc' = "train1"
               /\ UNCHANGED <<err, exitCode>>
          ELSE /\ models' = {}
               /\ log' = Append(log, Ev("HCompV", <<>>, cur_dir'))
               /\ Fail("IOError")
               /\ UNCHANGED bound
  /\ UNCHANGED <<optVars, objVars, has_sox, workspace, locVars, scp,
                 dirFiles, outVars, frameVars, dctVars,
                 callVars>>

(***************************************************************************)
(* __main__, lines 637, 641, 645: the three calls train(n_per_round), and  *)
(* the statement each returns to.                                          *)
(***************************************************************************)
\* mutant: the first call returns to line 641, small_pause is skipped
AfterTrainSkipPause(p) ==
  IF p = "train1" THEN "train2"
  ELSE IF p = "train2" THEN "align" ELSE "align_and_score"

AfterTrain(p) ==
  IF p = "train1" THEN "small_pause"
  ELSE IF p = "train2" THEN "align" ELSE "align_and_score"

TrainCall ==
  /\ pc \in {"train1", "train2", "train3"}
  /\ niter' = n_per_round
  /\ i' = 0
  /\ ret' = AfterTrain(pc)
  /\ pc' = "train"
  /\ UNCHANGED <<err, exitCode, optVars, objVars, has_sox, workspace, bound,
                 genVars, locVars, scp, dirFiles, outVars, toolFailed, log,
                 dctVars,
                 callVars>>

(***************************************************************************)
(* TrainAligner.train, lines 504-511: one pass of the loop: HERest reads   *)
(* macros and hmmdefs of cur_dir and writes into nxt_dir, then _nxt_dir(). *)
(* HERest cannot succeed when cur_dir holds no model.                      *)
(***************************************************************************)
\* mutant: the loop makes one pass more
TrainLoopOneMore(k, rounds) == k <= rounds

\* mutant: the loop makes one pass fewer
TrainLoopOneFewer(k, rounds) == k + 1 < rounds

TrainLoopTest(k, rounds) == k < rounds

\* mutant: HERest is given -M cur_dir
HERestInPlace(cur, nxt) == Ev("HERest", cur, cur)

\* lines 505-510: HERest ... -M nxt_dir -H cur_dir/macros -H cur_dir/hmmdefs
HERest(cur, nxt) == Ev("HERest", cur, nxt)

TrainRound ==
  /\ pc = "train"
  /\ TrainLoopTest(i, niter)
  /\ LET g == _nxt_dir(n, nxt_dir)
         herest == HERest(cur_dir, nxt_dir)
     IN /\ \E ok \in BOOLEAN :
             /\ ok => cur_dir \in models
             /\ toolFailed' = (toolFailed \/ ~ok)
             /\ models' = IF ok THEN models \cup {herest.wr} ELSE models
        /\ n' = g.n /\ cur_dir' = g.cur_dir /\ nxt_dir' = g.nxt_dir
        /\ IF g.nxt_dir \in Range(hmmDirs)
           THEN /\ Fail("OSError")
                /\ log' = Append(log, herest)
                /\ UNCHANGED <<hmmDirs, i>>
           ELSE /\ hmmDirs' = Append(hmmDirs, g.nxt_dir)
                /\ log' = log \o <<herest, Ev("_nxt_dir", g.cur_dir, g.nxt_dir)>>
                /\ i' = i + 1
                /\ UNCHANGED <<pc, err, exitCode>>
  /\ UNCHANGED <<optVars, objVars, has_sox, workspace, bound, locVars, scp,
                 dirFiles, outVars, niter, ret, dctVars,
                 callVars>>

TrainReturn ==
  /\ pc = "train"
  /\ ~TrainLoopTest(i, niter)
  /\ pc' = ret
  /\ log' = Append(log, Call("train"))
  /\ UNCHANGED <<err, exitCode, optVars, objVars, has_sox, workspace, bound,
                 genVars, locVars, scp, dirFiles, outVars, toolFailed,
                 frameVars, dctVars,
                 callVars>>

(***************************************************************************)
(* TrainAligner.small_pause, lines 513-561.  open(cur_dir/hmmdefs, 'r+')   *)
(* raises IOError when the file is not there; else the sp model is         *)
(* appended to it, HHEd writes the tied models into nxt_dir, _nxt_dir().   *)
(***************************************************************************)
small_pause ==
  /\ pc = "small_pause"
  /\ IF cur_dir \notin models
     THEN /\ Fail("IOError")
          /\ UNCHANGED <<genVars, toolFailed, log>>
     ELSE /\ \E ok \in BOOLEAN :
               /\ toolFailed' = (toolFailed \/ ~ok)
               /\ models' = IF ok THEN models \cup {nxt_dir} ELSE models
          /\ LET g == _nxt_dir(n, nxt_dir)
                 did == <<Ev("append sp", cur_dir, cur_dir),
                          Ev("HHEd", cur_dir, nxt_dir)>>
             IN /\ n' = g.n /\ cur_dir' = g.cur_dir /\ nxt_dir' = g.nxt_dir
                /\ IF g.nxt_dir \in Range(hmmDirs)
                   THEN /\ Fail("OSError")
                        /\ log' = log \o did
                        /\ UNCHANGED hmmDirs
                   ELSE /\ hmmDirs' = Append(hmmDirs, g.nxt_dir)
                        /\ log' = log \o did
                                    \o <<Ev("_nxt_dir", g.cur_dir, g.nxt_dir),
                                         Call("small_pause")>>
                        /\ pc' = "train2"
                        /\ UNCHANGED <<err, exitCode>>
  /\ UNCHANGED <<optVars, objVars, has_sox, workspace, bound, locVars, scp,
                 dirFiles, outVars, frameVars, dctVars,
                 callVars>>

(***************************************************************************)
(* Aligner.align, lines 351-361, called at line 643 with phon_mlf.  HVite  *)
(* goes through the files of test.scp (-S self.test_scp) and writes into   *)
(* the file it is given with -i one entry for each, named after the        *)
(* feature file with the extension lab.                                    *)
(***************************************************************************)
align ==
  /\ pc = "align"
  /\ \E ok \in BOOLEAN :
       /\ ok => cur_dir \in models
       /\ toolFailed' = (toolFailed \/ ~ok)
       /\ phon_mlf' = IF ok THEN {WithExt(mfc, "lab") : mfc \in Range(scp.test)}
                      ELSE phon_mlf
  /\ log' = log \o <<Ev("HVite", cur_dir, <<>>), Call("align")>>
  /\ pc' = "train3"
  /\ UNCHANGED <<err, exitCode, optVars, objVars, has_sox, workspace, bound,
                 genVars, locVars, scp, dirFiles, unpairedTxt, outofdictTxt,
                 scores, trace, align_mlf, frameVars, dctVars, callVars>>

(***************************************************************************)
(* Aligner.align_and_score, lines 363-380, called at lines 647 and 657.    *)
(* HVite goes through test.scp in order; for each utterance it prints a    *)
(* score line or, when it finds no alignment for it, none.  Without a      *)
(* model it prints no score line at all.                                   *)
(***************************************************************************)
RECURSIVE ScoreLines(_, _, _)
ScoreLines(out, utts, k) ==
  IF k > Len(out) THEN <<>>
  ELSE (IF out[k].score THEN <<[utt |-> utts[k], ll |-> out[k].ll]>> ELSE <<>>)
         \o ScoreLines(out, utts, k + 1)

align_and_score ==
  /\ pc = "align_and_score"
  /\ \E ok \in BOOLEAN, out \in [1..Len(scp.test) -> EngineLines] :
       /\ ok => cur_dir \in models
       /\ cur_dir \notin models => \A k \in 1..Len(out) : ~out[k].score
       /\ toolFailed' = (toolFailed \/ ~ok)
       /\ align_mlf' = ok
       /\ trace' = ScoreLines(out, scp.test, 1)
       /\ scores' = ScoreRows(out, wav_list)
  /\ log' = log \o <<Ev("HVite", cur_dir, <<>>), Call("align_and_score")>>
  /\ pc' = "MLF"
  /\ UNCHANGED <<err, exitCode, optVars, objVars, has_sox, workspace, bound,
                 genVars, locVars, scp, dirFiles, unpairedTxt, outofdictTxt,
                 phon_mlf, frameVars, dctVars, callVars>>

(***************************************************************************)
(* __main__, lines 649-650 and 659-660: MLF(path_to_mlf).write(ts_dir).    *)
(* When the final HVite failed, the file may not be there to be read.      *)
(***************************************************************************)
WriteTextGrids ==
  /\ pc = "MLF"
  /\ \E ok \in BOOLEAN :
       /\ align_mlf => ok
       /\ IF ok
          THEN /\ log' = Append(log, Call("MLF.write"))
               /\ exitCode' = 0
               /\ pc' = "exit"
               /\ UNCHANGED err
          ELSE Fail("IOError") /\ UNCHANGED log
  /\ UNCHANGED <<optVars, objVars, has_sox, workspace, bound, genVars,
                 locVars, scp, dirFiles, outVars, toolFailed, frameVars,
                 dctVars,
                 callVars>>

(***************************************************************************)
(* The end of the process and Aligner.__del__, lines 382-386.  Nothing     *)
(* but the destructor removes the workspace.  An Aligner whose constructor *)
(* raised is referenced by the traceback alone and is destroyed when the   *)
(* exception is cleared, the module still whole.  An Aligner bound to the  *)
(* module global aligner is destroyed when the interpreter tears the       *)
(* module down, name by name in an order the language does not fix: when   *)
(* the global rmtree has been cleared before aligner, __del__ raises       *)
(* TypeError, which is ignored, and the tree stays.                        *)
(***************************************************************************)
Finalize ==
  /\ pc = "exit"
  /\ pc' = "halted"
  /\ IF workspace = "exists"
     THEN IF bound
          THEN \E rmtreeLive \in BOOLEAN :
                 workspace' = IF rmtreeLive THEN "removed" ELSE "exists"
          ELSE workspace' = "removed"
     ELSE UNCHANGED workspace
  /\ UNCHANGED <<err, exitCode, optVars, objVars, has_sox, bound, genVars,
                 locVars, scp, dirFiles, outVars, toolFailed, log, frameVars,
                 dctVars,
                 callVars>>

Next ==
  \/ ParseArgs
  \/ Construct
  \/ Lists
  \/ CheckDct
  \/ CheckAud
  \/ _HCopy
  \/ UseShipped
  \/ Bootstrap
  \/ TrainCall
  \/ TrainRound
  \/ TrainReturn
  \/ small_pause
  \/ align
  \/ align_and_score
  \/ WriteTextGrids
  \/ Finalize

Spec == Init /\ [][Next]_vars


(***************************************************************************)
(* train(niter) on its own: a TrainAligner as its constructor leaves it,   *)
(* over training lists of every size, called with every niter.             *)
(***************************************************************************)
InitTrain ==
  /\ pc = "train" /\ err = None /\ exitCode = Running
  /\ sr = DefaultSR /\ tr_dir = "same" /\ ood_mode = FALSE
  /\ n_per_round = DefaultN /\ require_training = FALSE
  /\ argv = [NoArgv EXCEPT !.t = "same"]
  /\ has_sox \in BOOLEAN /\ workspace = "exists" /\ bound = TRUE
  /\ the_dict = EmptyFn
  /\ \E files \in SUBSET {f \in FilesOf("ts") : f[3] = "wav"} :
       /\ wav_list \in Perms(files)
       /\ dirFiles = ("ts" :> (files \cup {WithExt(f, "lab") : f \in files}))
  /\ scp = [copy |-> [k \in 1..Len(wav_list) |->
                        <<wav_list[k], <<"DAT", wav_list[k][2], "mfc">>>>],
            test |-> [k \in 1..Len(wav_list) |-> <<"DAT", wav_list[k][2], "mfc">>],
            train |-> <<>>]
  /\ n = 1 /\ cur_dir = GenDir(0) /\ nxt_dir = GenDir(1) /\ train_scp = "test"
  /\ ts_lab_list = <<>> /\ tr_wav_list = <<>> /\ tr_lab_list = <<>>
  /\ hmmDirs = <<GenDir(0), GenDir(1)>> /\ models = {GenDir(0)}
  /\ align_mlf = FALSE
  /\ phon_mlf = {<<"LAB", wav_list[k][2], "lab">> : k \in 1..Len(wav_list)}
  /\ unpairedTxt = <<>> /\ outofdictTxt = {}
  /\ toolFailed = FALSE /\ log = <<>>
  /\ scores = <<>> /\ trace = <<>>
  /\ niter \in 0..MaxNiter /\ i = 0 /\ ret = "return"
  /\ dctIn = NoDctIn /\ dctOut = _check_dct(<<>>, EmptyFn, EmptyFn, FALSE)
  /\ srReq = 0 /\ audIn = NoAudIn

NextTrain == TrainRound \/ TrainReturn

SpecTrain == InitTrain /\ [][NextTrain]_vars

(***************************************************************************)
(* _check_dct on its own: every dictionary file, every list of label files *)
(* of the two directories, every transcript.                               *)
(***************************************************************************)
AllLabs == {f \in FilesOf("ts") \cup FilesOf("tr") : f[3] = "lab"}
LabLists == UNION {Perms(S) : S \in {T \in SUBSET AllLabs : Cardinality(T) \in 1..2}}

InitDct ==
  /\ pc = "dct"
  /\ \E lines \in DictFiles, labs \in LabLists, m \in BOOLEAN :
       \E text \in [Range(labs) -> Transcripts] :
         dctIn = [lines |-> lines, labs |-> labs, text |-> text, ood_mode |-> m]
  /\ srReq = 0
  /\ Blank

DctResolve ==
  /\ pc = "dct"
  /\ dctOut' = _check_dct(dctIn.labs, dctIn.text, _the_dict(dctIn.lines),
                          dctIn.ood_mode)
  /\ pc' = "dct_done"
  /\ UNCHANGED <<err, exitCode, optVars, objVars, has_sox, workspace, bound,
                 genVars, locVars, scp, dirFiles, outVars, toolFailed, log,
                 frameVars, dctIn, callVars>>

\* mutant: the label files are opened 'a'
AppendFile(old, new) == old \o new

\* open(path, 'w').write(new) on a file that holds old (lines 242, 244)
WriteFile(old, new) == new

\* the files of a directory after each path of written has been written
Written(before, written) ==
  [p \in DOMAIN before \cup DOMAIN written |->
     IF p \notin DOMAIN written THEN before[p]
     ELSE WriteFile(IF p \in DOMAIN before THEN before[p] ELSE <<>>,
                    written[p])]

\* _check_dct called once more on the same arguments, in the workspace the
\* first call left
DctAgain ==
  /\ pc = "dct_done"
  /\ LET r == _check_dct(dctIn.labs, dctIn.text, _the_dict(dctIn.lines),
                         dctIn.ood_mode)
     IN dctOut' = [r EXCEPT !.phon_labs = Written(dctOut.phon_labs, @),
                            !.word_labs = Written(dctOut.word_labs, @)]
  /\ pc' = "dct_twice"
  /\ UNCHANGED <<err, exitCode, optVars, objVars, has_sox, workspace, bound,
                 genVars, locVars, scp, dirFiles, outVars, toolFailed, log,
                 frameVars, dctIn, callVars>>

NextDct == DctResolve \/ DctAgain

SpecDct == InitDct /\ [][NextDct]_vars


(***************************************************************************)
(* The resolution of -s on its own, lines 596-611: every request within    *)
(* MaxDelta of a supported rate, and the requests of the examples.         *)
(***************************************************************************)
SRRequests ==
  {x \in UNION {{s - d, s + d} : s \in Range(SRs), d \in 0..MaxDelta} : x > 0}
    \cup {3000, 9000, 999999}

InitSR ==
  /\ pc = "sr"
  /\ dctIn = NoDctIn
  /\ srReq \in SRRequests
  /\ Blank

ResolveRate ==
  /\ pc = "sr"
  /\ SArgOk([given |-> TRUE, int |-> TRUE, val |-> srReq])
  /\ sr' = ResolveSR(srReq)
  /\ require_training' = TRUE
  /\ pc' = "sr_done"
  /\ UNCHANGED <<err, exitCode, tr_dir, ood_mode, n_per_round, argv, objVars,
                 has_sox, workspace, bound, genVars, locVars, scp, dirFiles,
                 outVars, toolFailed, log, frameVars, dctVars, callVars>>

NextSR == ResolveRate

SpecSR == InitSR /\ [][NextSR]_vars

(***************************************************************************)
(* Helpers of the claims.                                                  *)
(***************************************************************************)
Halted == pc = "halted"
HasOp(op) == \E k \in 1..Len(log) : log[k].op = op
Count(op) == Cardinality({k \in 1..Len(log) : log[k].op = op})
Distinct(q) == \A j, k \in 1..Len(q) : q[j] = q[k] => j = k
IsPrefix(p, q) == Len(p) <= Len(q) /\ \A k \in 1..Len(p) : p[k] = q[k]
StemsIn(q) == {q[k][2] : k \in 1..Len(q)}

\* every file of the directory has its counterpart
Paired(files) ==
  \A f \in files : WithExt(f, "wav") \in files /\ WithExt(f, "lab") \in files
HasWav(files) == \E f \in files : f[3] = "wav"
\* the counterparts that are expected and not there
Counterparts(files) ==
  {WithExt(f, IF f[3] = "wav" THEN "lab" ELSE "wav") : f \in files} \ files

LastGlobbed == IF "tr" \in DOMAIN dirFiles THEN "tr" ELSE "ts"
ListsFailed(d) == d = LastGlobbed /\ err \in {"nowav", "unpaired"}
\* the lists _lists(d) returned, while _check holds them
ListsLive(d) ==
  IF d = "ts" THEN pc \in {"lists_tr", "check_dct", "check_aud_ts", "check_aud_tr"}
  ELSE pc \in {"check_dct", "check_aud_ts", "check_aud_tr"}
WavsOf(d) == IF d = "ts" THEN wav_list ELSE tr_wav_list
LabsOf(d) == IF d = "ts" THEN ts_lab_list ELSE tr_lab_list

(***************************************************************************)
(* C1: whenever the workspace was created, it no longer exists when the    *)
(* run has terminated, on every exit path.                                 *)
(***************************************************************************)
C1_WorkspaceRemoved == (Halted /\ workspace # None) => workspace = "removed"

(***************************************************************************)
(* C2: once an external invocation has returned a non-success status, no   *)
(* later stage is executed, no generation is advanced, and the run does    *)
(* not end with status 0.                                                  *)
(***************************************************************************)
C2_ToolFailureFatal ==
  [][toolFailed => (log' = log /\ n' = n /\ exitCode' # 0)]_vars

(***************************************************************************)
(* C3: every call of _nxt_dir increases the counter by exactly 1, makes    *)
(* the former next directory the current one and creates a directory that  *)
(* did not exist; the names of the directories created are pairwise        *)
(* distinct.                                                               *)
(***************************************************************************)
CallsNxtDir ==
  \/ pc = "train" /\ TrainLoopTest(i, niter)
  \/ pc = "small_pause" /\ cur_dir \in models

C3_AdvanceMonotonic ==
  [][/\ Distinct(hmmDirs')
     /\ CallsNxtDir =>
          /\ n' = n + 1
          /\ cur_dir' = nxt_dir
          /\ nxt_dir' \notin Range(hmmDirs)
          /\ hmmDirs' = Append(hmmDirs, nxt_dir')
          /\ err' = None]_vars

C3_Witness ==
  /\ Len(hmmDirs) >= 6 /\ HasOp("small_pause") /\ Count("train") = 3

(***************************************************************************)
(* C4: train(niter) makes exactly niter HERest invocations and niter       *)
(* advances, alternating: each HERest reads the directory the one before   *)
(* wrote and writes another one, which the advance then makes current;     *)
(* whatever the size of the training list.                                 *)
(***************************************************************************)
C4_TrainRounds ==
  LET body == IF pc = "return" THEN SubSeq(log, 1, Len(log) - 1) ELSE log
  IN /\ \A k \in 1..Len(body) :
          IF k % 2 = 1
          THEN /\ body[k].op = "HERest"
               /\ body[k].wr # body[k].rd
               /\ k > 2 => body[k].rd = body[k - 2].wr
          ELSE /\ body[k].op = "_nxt_dir"
               /\ body[k].rd = body[k - 1].wr
     /\ Len(body) = 2 * i
     /\ i <= niter
     /\ pc = "return" => (i = niter /\ log[Len(log)].op = "train")

C4_Witness ==
  /\ pc = "return" /\ niter = 2 /\ Len(scp.test) = 2 /\ Count("HERest") = 2

(***************************************************************************)
(* C5: in a training run the stages are completed in the order Validated,  *)
(* DictionaryResolved, Normalized, Bootstrapped, Trained, PauseInjected,   *)
(* Trained, Realigned, Trained, Scored, Done; a run that ends with status  *)
(* 0 has completed each of them, none twice and none skipped.              *)
(***************************************************************************)
StageOf(op) ==
  CASE op = "_lists" -> "Validated"
    [] op = "_check_dct" -> "DictionaryResolved"
    [] op = "_check_aud" -> "Normalized"
    [] op = "_subclass_specific_init" -> "Bootstrapped"
    [] op = "train" -> "Trained"
    [] op = "small_pause" -> "PauseInjected"
    [] op = "align" -> "Realigned"
    [] op = "align_and_score" -> "Scored"
    [] op = "MLF.write" -> "Done"
    [] OTHER -> ""

\* the stages completed; the calls of _lists and of _check_aud for the two
\* directories make one stage each
RECURSIVE Stages(_)
Stages(ops) ==
  IF ops = <<>> THEN <<>>
  ELSE LET before == Stages(SubSeq(ops, 1, Len(ops) - 1))
           st == StageOf(ops[Len(ops)])
       IN IF st = "" THEN before
          ELSE IF /\ st \in {"Validated", "Normalized"}
                  /\ before # <<>>
                  /\ before[Len(before)] = st
          THEN before
          ELSE Append(before, st)

TrainingStages ==
  <<"Validated", "DictionaryResolved", "Normalized", "Bootstrapped",
    "Trained", "PauseInjected", "Trained", "Realigned", "Trained",
    "Scored", "Done">>

C5_StageOrder ==
  Training =>
    /\ IsPrefix(Stages(Ops(log)), TrainingStages)
    /\ (Halted /\ exitCode = 0) => Stages(Ops(log)) = TrainingStages

C5_Witness ==
  /\ Halted /\ exitCode = 0 /\ tr_dir = "other"
  /\ Stages(Ops(log)) = TrainingStages

(***************************************************************************)
(* C6: in a training run, for every accepted -n and for the default,       *)
(* small_pause runs at most once and only after a re-estimation round; a   *)
(* run that gets as far as the realignment has run it exactly once and has *)
(* run a re-estimation round after it.                                     *)
(***************************************************************************)
C6_SmallPauseOnce ==
  Training =>
    /\ Count("small_pause") <= 1
    /\ \A k \in 1..Len(log) :
         log[k].op = "small_pause" => \E j \in 1..k : log[j].op = "HERest"
    /\ HasOp("align") =>
         \E k \in 1..Len(log) :
           /\ log[k].op = "small_pause"
           /\ \E j \in k..Len(log) : log[j].op = "HERest" /\ j < Len(log)
           /\ \E j \in 1..Len(log) : log[j].op = "align" /\ k < j

C6_Witness ==
  /\ Training /\ Halted /\ exitCode = 0 /\ ~require_training
  /\ n_per_round = DefaultN /\ Count("small_pause") = 1

(***************************************************************************)
(* C7: after align_and_score the score table has one row for each matched  *)
(* score line, in the order of the audio list, and each row pairs an       *)
(* utterance with the log likelihood printed for that utterance.           *)
(***************************************************************************)
IsMatched(line) == line.ll < 0
\* the audio file of a feature file of test.scp
WavOfUtt(utt) ==
  wav_list[CHOOSE k \in 1..Len(scp.test) : scp.test[k] = utt]

C7_RowsPaired ==
  HasOp("align_and_score") =>
    LET matched == SelectSeq(trace, IsMatched)
    IN /\ Len(scores) = Len(matched)
       /\ \A k \in 1..Len(scores) :
            /\ scores[k][2] = matched[k].ll
            /\ scores[k][1] = WavOfUtt(matched[k].utt)

(***************************************************************************)
(* C8: a directory with at least one .wav file in which every stem has     *)
(* both files passes _lists, and the two lists returned have the same      *)
(* length and the stems of the directory.                                  *)
(***************************************************************************)
ListsAgree(d) ==
  /\ ~ListsFailed(d)
  /\ ListsLive(d) =>
       /\ Len(WavsOf(d)) = Len(LabsOf(d))
       /\ Distinct(WavsOf(d)) /\ Distinct(LabsOf(d))
       /\ StemsIn(WavsOf(d)) = StemsIn(LabsOf(d))
       /\ StemsIn(WavsOf(d)) = {f[2] : f \in dirFiles[d]}

C8_PairedPasses ==
  \A d \in DOMAIN dirFiles :
    (Paired(dirFiles[d]) /\ HasWav(dirFiles[d])) => ListsAgree(d)

\* C8 as stated: every directory in which every stem has both files
C8_AsStated ==
  \A d \in DOMAIN dirFiles : Paired(dirFiles[d]) => ListsAgree(d)

C8_Witness ==
  /\ pc = "check_dct" /\ tr_dir = "other"
  /\ Len(wav_list) = 2 /\ Len(tr_wav_list) = 1

(***************************************************************************)
(* C9: a directory with at least one .wav file in which some stem has only *)
(* one of its two files fails _lists, unpaired.txt lists exactly the       *)
(* counterparts that are missing, each once, and nothing runs after it.    *)
(***************************************************************************)
NothingAfterLists ==
  /\ pc \in {"exit", "halted"}
  /\ exitCode = 1
  /\ \A k \in 1..Len(log) : log[k].op = "_lists"
  /\ ~toolFailed /\ hmmDirs = <<>> /\ scp.copy = <<>>

UnpairedReported(d) ==
  /\ ListsFailed(d)
  /\ Range(unpairedTxt) = Counterparts(dirFiles[d])
  /\ Distinct(unpairedTxt)
  /\ NothingAfterLists

C9_UnpairedFails ==
  \A d \in DOMAIN dirFiles :
    (~Paired(dirFiles[d]) /\ HasWav(dirFiles[d])) => UnpairedReported(d)

\* C9 as stated: every directory in which some stem has only one file
C9_AsStated ==
  \A d \in DOMAIN dirFiles : ~Paired(dirFiles[d]) => UnpairedReported(d)

C9_Witness ==
  /\ Halted /\ err = "unpaired" /\ Len(unpairedTxt) = 2
  /\ \E f \in Range(unpairedTxt) : f[3] = "wav"

(***************************************************************************)
(* C10: _check_dct succeeds, with no out-of-dictionary word, exactly when  *)
(* every word of every transcript is a word of the dictionary file; when   *)
(* some word is not, it fails.                                             *)
(***************************************************************************)
DictWords(lines) == {lines[k][1] : k \in 1..Len(lines)}
AllWordsKnown ==
  \A lab \in Range(dctIn.labs) :
    \A k \in 1..Len(dctIn.text[lab]) :
      dctIn.text[lab][k] \in DictWords(dctIn.lines)

C10_ResolvesIffKnown ==
  pc = "dct_done" =>
    /\ (dctOut.status = "ok" /\ DOMAIN dctOut.ood = {}) <=> AllWordsKnown
    /\ ~AllWordsKnown => (dctOut.status = "ood" /\ dctOut.outofdict # {})

C10_Witness ==
  /\ pc = "dct_done" /\ dctOut.status = "ok" /\ AllWordsKnown
  /\ Len(dctIn.labs) = 2
  /\ \A lab \in Range(dctIn.labs) : dctIn.text[lab] # <<>>

(***************************************************************************)
(* C11: when a transcript of the corpus to be aligned or of the training   *)
(* corpus holds a word that is not in the dictionary, the run fails before *)
(* any model work: no external tool has been invoked, no audio has been    *)
(* normalized, no generation directory exists, nothing has been aligned.   *)
(***************************************************************************)
\* _check_dct has been called on a transcript with an unknown word
OovRead ==
  \E lab \in Range(dctIn.labs) :
    \E k \in 1..Len(dctIn.text[lab]) : dctIn.text[lab][k] \notin DOMAIN the_dict

NoModelWork ==
  /\ \A k \in 1..Len(log) : log[k].op = "_lists"
  /\ ~toolFailed
  /\ scp = [copy |-> <<>>, test |-> <<>>, train |-> <<>>]
  /\ n = 0 /\ hmmDirs = <<>> /\ models = {}
  /\ ~align_mlf /\ scores = <<>> /\ trace = <<>>

C11_OovBeforeModelWork ==
  OovRead =>
    /\ pc \in {"exit", "halted"}
    /\ err = "ood" /\ exitCode = 1
    /\ outofdictTxt # {}
    /\ NoModelWork

C11_Witness ==
  /\ OovRead /\ Halted /\ tr_dir = "other"
  /\ \E lab \in Range(dctIn.labs) :
       lab[1] = "tr" /\ dctIn.text[lab] # <<>>
                     /\ dctIn.text[lab][1] \notin DOMAIN the_dict
  /\ \A lab \in Range(dctIn.labs) :
       lab[1] = "ts" => \A k \in 1..Len(dctIn.text[lab]) :
                          dctIn.text[lab][k] \in DOMAIN the_dict

(***************************************************************************)
(* C12: for every positive value of -s the resolved rate is the supported  *)
(* rate nearest to it: no supported rate is closer to the request.         *)
(***************************************************************************)
Dist(a, b) == IF a >= b THEN a - b ELSE b - a

C12_NearestRate ==
  pc = "sr_done" => \A s \in Range(SRs) : Dist(sr, srReq) <= Dist(s, srReq)

(***************************************************************************)
(* C13: for every positive value of -s the resolved rate is a supported    *)
(* rate; a supported request is kept (4000 -> 4000), a request below all   *)
(* supported rates gives the lowest (3000 -> 4000), one above all of them  *)
(* the highest (999999 -> 200000).                                         *)
(***************************************************************************)
C13_SupportedAndClamped ==
  pc = "sr_done" =>
    /\ sr \in Range(SRs)
    /\ srReq \in Range(SRs) => sr = srReq
    /\ (\A s \in Range(SRs) : srReq < s) => sr = SRs[1]
    /\ (\A s \in Range(SRs) : srReq > s) => sr = SRs[Len(SRs)]
    /\ srReq = 4000 => sr = 4000
    /\ srReq = 3000 => sr = 4000
    /\ srReq = 999999 => sr = 200000

C13_Witness == pc = "sr_done" /\ srReq = 3000 /\ sr = 4000

(***************************************************************************)
(* C14: a command line that gives -n or -s and no -t fails with a message  *)
(* and a nonzero exit before the workspace is created and before any       *)
(* external tool is invoked; -n is accepted only for the integers 1 to 24. *)
(***************************************************************************)
Parsed == pc \notin {"parse", "sr", "sr_done", "dct", "dct_done", "dct_twice"}

C14_TrainingOnlyOptions ==
  Parsed =>
    /\ ((argv.n.given \/ argv.s.given) /\ argv.t = Absent) =>
         /\ pc \in {"exit", "halted"}
         /\ err # None /\ exitCode > 0
         /\ workspace = None /\ log = <<>> /\ ~toolFailed
         /\ dirFiles = EmptyFn /\ hmmDirs = <<>>
    /\ (argv.n.given /\ workspace # None) =>
         /\ argv.n.int /\ 1 <= argv.n.val /\ argv.n.val <= NLimit - 1
         /\ n_per_round = argv.n.val
    /\ (argv.n.given /\ ~(argv.n.int /\ argv.n.val \in 1..(NLimit - 1))) =>
         (pc \in {"exit", "halted"} /\ exitCode > 0 /\ workspace = None)

C14_Witness ==
  /\ Halted /\ err = "-n, -s only with -t"
  /\ argv.s.given /\ ~argv.n.given /\ argv.t = Absent

(***************************************************************************)
(* C15: a run without -t validates, resolves the dictionary, normalizes    *)
(* the audio and extracts the features, then calls align_and_score exactly *)
(* once, on the shipped models: it makes no generation directory and runs  *)
(* no bootstrap, no re-estimation, no small_pause and no realignment.      *)
(***************************************************************************)
NotSox(e) == e.op # "sox"

NonTrainingOps ==
  <<"_lists", "HDMan", "HLEd", "_check_dct", "_check_aud", "HCopy", "_HCopy",
    "HVite", "align_and_score", "MLF.write">>

NonTrainingRun == Parsed /\ argv.t = Absent /\ tr_dir = None

C15_NonTrainingRun ==
  NonTrainingRun =>
    /\ IsPrefix(Ops(SelectSeq(log, NotSox)), NonTrainingOps)
    /\ \A k \in 1..Len(log) : log[k].op = "HVite" => log[k].rd = MOD
    /\ hmmDirs = <<>> /\ n = 0 /\ nxt_dir = <<>> /\ models \subseteq {MOD}
    /\ pc \notin {"bootstrap", "train1", "train2", "train3", "train",
                  "small_pause", "align"}
    /\ (Halted /\ exitCode = 0) =>
         (Ops(SelectSeq(log, NotSox)) = NonTrainingOps
            /\ Count("align_and_score") = 1)

C15_Witness ==
  /\ NonTrainingRun /\ Halted /\ exitCode = 0
  /\ Count("align_and_score") = 1 /\ HasOp("sox") /\ Len(wav_list) = 2

ReadsCurrent ==
  pc \in {"train1", "train", "small_pause", "train2", "align", "train3",
          "align_and_score"}

C17_CurrentMaterialized == (Training /\ ReadsCurrent) => cur_dir \in models

(***************************************************************************)
(* C18: in every state of a training run after the bootstrap there is one  *)
(* current and one next generation, the number of the next one is the      *)
(* number of the current one plus 1 and is the counter n, and each advance *)
(* makes the former next generation the current one.                       *)
(***************************************************************************)
DigitValue(c) == CHOOSE d \in 0..9 : Digit(d) = c

\* the number a directory name spells
RECURSIVE Value(_)
Value(name) ==
  IF name = <<>> THEN 0
  ELSE 10 * Value(SubSeq(name, 1, Len(name) - 1)) + DigitValue(name[Len(name)])

C18_CurrentAndNext ==
  [][/\ (Training /\ hmmDirs' # <<>>) =>
          /\ Len(cur_dir') = ZWidth /\ Len(nxt_dir') = ZWidth
          /\ Value(nxt_dir') = Value(cur_dir') + 1
          /\ Value(nxt_dir') = n'
          /\ cur_dir' \in Range(hmmDirs') /\ nxt_dir' \in Range(hmmDirs')
          /\ nxt_dir' = hmmDirs'[Len(hmmDirs')]
     /\ (Training /\ CallsNxtDir) => cur_dir' = nxt_dir]_vars

C18_Witness ==
  /\ Training /\ Halted /\ exitCode = 0
  /\ n = 3 * DefaultN + 2 /\ Value(nxt_dir) = n /\ Value(cur_dir) = n - 1

(***************************************************************************)
(* C19: a generation that has been produced is not written again: every    *)
(* HERest and the HHEd of small_pause write into the next generation, to   *)
(* which nothing has been written before, align and align_and_score write  *)
(* into no generation; only small_pause appends the sp model to hmmdefs of *)
(* the current generation before HHEd produces the next one.               *)
(***************************************************************************)
C19_GenerationsImmutable ==
  \A k \in 1..Len(log) :
    LET e == log[k]
    IN /\ e.op \in {"HERest", "HHEd"} =>
            /\ e.wr # <<>> /\ e.wr # e.rd
            /\ \A j \in 1..(k - 1) :
                 log[j].op # "_nxt_dir" => (log[j].wr # e.wr /\ log[j].rd # e.wr)
       /\ e.op = "HVite" => e.wr = <<>>
       /\ e.op = "append sp" =>
            /\ e.wr = e.rd
            /\ k < Len(log) /\ log[k + 1].op = "HHEd" /\ log[k + 1].rd = e.wr
            /\ \E j \in 1..(k - 1) : log[j].op = "_nxt_dir" /\ log[j].rd = e.wr
       /\ e.op = "HCompV" =>
            \A j \in 1..(k - 1) : log[j].wr # e.wr /\ log[j].rd # e.wr

C19_Witness ==
  /\ Training /\ Halted /\ exitCode = 0
  /\ Count("HERest") = 3 * DefaultN /\ Count("HHEd") = 1
  /\ Count("append sp") = 1 /\ Count("HVite") = 2

Nonconforming(a, k) ==
  a.hdr[a.wavs[k]].rate # sr \/ a.hdr[a.wavs[k]].channels # 1

\* the sox invocations among the events ev, in order
SoxOf(ev) == SelectSeq(ev, LAMBDA e : e.op = "sox")

\* what one call of _check_aud does
NormalizerStep ==
  pc \in {"check_aud_ts", "check_aud_tr"} =>
   LET a == audIn'
       N == Len(a.wavs)
       bad == {k \in 1..N : Nonconforming(a, k)}
       new == SubSeq(log', Len(log) + 1, Len(log'))
       copied == SubSeq(scp'.copy, Len(scp.copy) + 1, Len(scp'.copy))
       listed == IF a.training THEN scp'.train ELSE scp'.test
   IN /\ a.training = (pc = "check_aud_tr")
      /\ a.wavs = (IF a.training THEN tr_wav_list ELSE wav_list)
      /\ N > 0
      /\ IF bad # {} /\ ~has_sox
         THEN /\ err' = "nosox" /\ exitCode' = 1 /\ pc' = "exit"
              /\ SoxOf(new) = <<>>
         ELSE /\ err' = None /\ pc' \in {"check_aud_tr", "HCopy"}
              /\ Len(SoxOf(new)) = Cardinality(bad)
              /\ \A k \in 1..N :
                   (k \in bad /\ has_sox) <=>
                     \E j \in 1..Len(new) :
                       new[j].op = "sox" /\ new[j].rd = a.wavs[k]
              /\ Len(copied) = N /\ Len(listed) = N
              /\ \A k \in 1..N :
                   /\ copied[k][1] = IF k \in bad
                                     THEN <<"DAT", a.wavs[k][2], "wav">>
                                     ELSE a.wavs[k]
                   /\ copied[k][2] = listed[k]
                   /\ listed[k][2] = a.wavs[k][2]
                   /\ listed[k][3] = "mfc"
              /\ a.training => scp'.test = scp.test
              /\ ~a.training => scp'.train = scp.train

(***************************************************************************)
(* C20: for every file of a list given to _check_aud: sox is invoked for   *)
(* it exactly when its sample rate is not the target or it is not mono,    *)
(* and sox is there; when such a file is met and sox is not there the run  *)
(* fails; otherwise every file adds one line to copy.scp and one line to   *)
(* the list of feature files, in the order of the list: to train.scp when  *)
(* training is set, else to test.scp.                                      *)
(***************************************************************************)
C20_NormalizerPerFile == [][NormalizerStep]_vars

C20_Witness ==
  /\ pc = "HCopy" /\ audIn.training /\ has_sox
  /\ Nonconforming(audIn, 1) /\ Len(scp.test) = 2 /\ Len(scp.train) = 1
  /\ Len(SoxOf(log)) = 2

(***************************************************************************)
(* C21: a training run with N rounds per call that gets to the end makes   *)
(* exactly 3N HERest invocations and one HHEd; the final align_and_score   *)
(* reads generation 3N+1; the directories made under HMM/ are exactly 000  *)
(* to 3N+2, named with three digits, each once; and no production step     *)
(* writes into the one with the highest number.                            *)
(***************************************************************************)
IsProduction(e) == e.op \in {"HCompV", "HERest", "HHEd", "append sp"}

C21_GenerationCount ==
  (Training /\ HasOp("align_and_score")) =>
    LET N == n_per_round
        final == log[Len(log) - (IF HasOp("MLF.write") THEN 2 ELSE 1)]
    IN /\ 1 <= N /\ N <= NLimit - 1
       /\ Count("HERest") = 3 * N /\ Count("HHEd") = 1
       /\ final.op = "HVite" /\ Value(final.rd) = 3 * N + 1
       /\ cur_dir = final.rd
       /\ Len(hmmDirs) = 3 * N + 3
       /\ \A k \in 1..Len(hmmDirs) :
            Len(hmmDirs[k]) = ZWidth /\ Value(hmmDirs[k]) = k - 1
       /\ Distinct(hmmDirs)
       /\ \A k \in 1..Len(log) :
            IsProduction(log[k]) => log[k].wr # hmmDirs[Len(hmmDirs)]

C21_Witness ==
  /\ Training /\ Halted /\ exitCode = 0 /\ ~toolFailed
  /\ argv.n.given /\ n_per_round = 2 /\ Len(hmmDirs) = 9
  /\ Count("HERest") = 6

(***************************************************************************)
(* C22: once the realign step of a training run has written phones.mlf,    *)
(* the file holds an entry for every utterance of the feature list the     *)
(* following HERest rounds are given with -S, whether the training         *)
(* directory is the alignment directory or another one.  An entry is taken *)
(* to be for a feature file when it carries the file's base name, whatever *)
(* its directory.                                                          *)
(***************************************************************************)
HasEntry(mlf, mfc) == \E e \in mlf : e[2] = mfc[2]

Realigned == Training /\ HasOp("align") /\ ~toolFailed

C22_RealignCoversTraining ==
  Realigned => \A k \in 1..Len(scp[train_scp]) :
                 HasEntry(phon_mlf, scp[train_scp][k])

(***************************************************************************)
(* C23: two different source files of the alignment corpus and the         *)
(* training corpus never get the same destination in the workspace: the    *)
(* label files _check_dct has written are as many, at the phone level and  *)
(* at the word level, as the transcripts it was given, and no two lines of *)
(* copy.scp name the same feature file.                                    *)
(***************************************************************************)
LabelsWritten ==
  _check_dct(dctIn.labs, dctIn.text, the_dict, dctIn.ood_mode)

C23_NoSharedArtifact ==
  /\ (pc = "check_aud_ts" /\ Distinct(dctIn.labs)) =>
       /\ Cardinality(DOMAIN LabelsWritten.phon_labs) = Len(dctIn.labs)
       /\ Cardinality(DOMAIN LabelsWritten.word_labs) = Len(dctIn.labs)
  /\ \A j, k \in 1..Len(scp.copy) : j # k => scp.copy[j][2] # scp.copy[k][2]

=============================================================================
